---- MODULE Spec2Model ----
(***************************************************************************)
(* Model of the macro-map crate (src/src/lib.rs): the four macro_rules!    *)
(* expansions map_err!, ok_or_else!, try_map_err! and try_ok_or_else!,     *)
(* evaluated at a call site inside an enclosing function.                  *)
(*                                                                         *)
(* One input (a Result or an Option), one replacement expression and one   *)
(* error type of the enclosing function are drawn at Init.  The same       *)
(* arguments are then evaluated at several call sites, one frame each:     *)
(*   map_err        let mapped = map_err!(input, |e| f); mapped            *)
(*   try_map_err    try_map_err!(input, |e| f); Ok(a)                      *)
(*   map_err_q      map_err!(input, |e| f)?; Ok(a)                         *)
(* and likewise ok_or_else, try_ok_or_else, ok_or_else_q for an Option.    *)
(***************************************************************************)
EXTENDS Integers, Sequences, FiniteSets, TLC

VARIABLES input, closure, errType, fr

vars == <<input, closure, errType, fr>>

\* ---------------------------------------------------------------- bounds
NumVals == 2
NumErrs == 2

\* the literal used as replacement expression in the doc examples
Lit == 123

\* ---------------------------------------------------------------- values
\* Every value is [tag, ty, v]: tag is the enum variant ("Ok", "Err",
\* "Some", "None"), "raw" for a bare payload, "nil" for no value.
Nil == [tag |-> "nil", ty |-> "-", v |-> 0]

RawOf(ty, v) == [tag |-> "raw", ty |-> ty, v |-> v]

Raw(x) == [tag |-> "raw", ty |-> x.ty, v |-> x.v]

Ok(p) == [tag |-> "Ok", ty |-> p.ty, v |-> p.v]

Err(p) == [tag |-> "Err", ty |-> p.ty, v |-> p.v]

Some(p) == [tag |-> "Some", ty |-> p.ty, v |-> p.v]

None == [tag |-> "None", ty |-> "-", v |-> 0]

\* the owned, non-Copy value `a: MyNonCopy` of the test functions
MyNonCopy == RawOf("MyNonCopy", 0)

OkVals == {RawOf("&str", k) : k \in 1..NumVals}

ErrVals == {RawOf("&str", 10 + k) : k \in 1..NumErrs}

ResultInputs == {Ok(p) : p \in OkVals} \cup {Err(p) : p \in ErrVals}

OptionInputs == {Some(p) : p \in OkVals} \cup {None}

IsResult(x) == x.tag \in {"Ok", "Err"}

IsSuccess(x) == x.tag \in {"Ok", "Some"}

\* ------------------------------------------------- replacement expression
\* "lit"     |myerr| 123      (doc examples)
\* "err"     |e| e            (uses the bound error; Result macros only)
\* "tuple_a" |_| (a,)         (moves the owned value a; unit tests)
ClosuresFor(x) == IF IsResult(x) THEN {"lit", "err", "tuple_a"} ELSE {"lit", "tuple_a"}

ClosureType(c) == CASE c = "lit" -> "i32" [] c = "err" -> "&str" [] OTHER -> "(MyNonCopy,)"

\* value of $closure with $err bound to e
ClosureValue(c, e) ==
    CASE c = "lit" -> RawOf("i32", Lit)
      [] c = "err" -> Raw(e)
      [] OTHER     -> RawOf("(MyNonCopy,)", MyNonCopy.v)

ClosureMovesA(c) == c = "tuple_a"

\* ------------------------------------------------------------ conversion
\* From impls available to `.into()` / `?`: the reflexive impl, and the
\* widening i32 -> i64 of the doc examples, &str -> String.
FromImpls == {<<"i32", "i32">>, <<"i32", "i64">>, <<"&str", "&str">>,
              <<"&str", "String">>, <<"(MyNonCopy,)", "(MyNonCopy,)">>}

ErrTypesFor(c) == {p[2] : p \in {q \in FromImpls : q[1] = ClosureType(c)}}

From(p, E) == RawOf(E, p.v)

Into_noconv(p, E) == Raw(p)

Into(p, E) == From(p, E)

\* ------------------------------------------------------------ call sites
\* The `..?; Ok(a)` call sites exist only for a replacement expression that
\* leaves a alone: with |_| (a,) the borrow checker rejects them (a is
\* possibly moved when Ok(a) is reached), which is what the try_ macros are
\* for.
SitesFor(x, c) ==
    (IF IsResult(x) THEN {"map_err", "try_map_err"} ELSE {"ok_or_else", "try_ok_or_else"})
    \cup (IF ClosureMovesA(c) THEN {}
          ELSE IF IsResult(x) THEN {"map_err_q"} ELSE {"ok_or_else_q"})

Sites == {"map_err", "try_map_err", "map_err_q",
          "ok_or_else", "try_ok_or_else", "ok_or_else_q"}

IsQ(s) == s \in {"map_err_q", "ok_or_else_q"}

IsTry(s) == s \in {"try_map_err", "try_ok_or_else"}

InitFrame == [pc |-> "macro", yield |-> Nil, ret |-> Nil,
              evals |-> 0, moved |-> <<>>, after |-> 0]

\* pc after a macro expression produced a value
AfterMacro(s) == IF IsQ(s) THEN "question" ELSE "after"

Init ==
    /\ input \in ResultInputs \cup OptionInputs
    /\ closure \in ClosuresFor(input)
    /\ errType \in ErrTypesFor(closure)
    /\ fr = [s \in SitesFor(input, closure) |-> InitFrame]

\* evaluating $closure once: counts the evaluation and performs its move
EvalClosure(f) ==
    [f EXCEPT !.evals = @ + 1,
              !.moved = IF ClosureMovesA(closure) THEN Append(@, "closure") ELSE @]


\* ------------------------------------------------------------ the macros
\* Each macro action is the whole expansion: the match on $result and the
\* arm it selects.  s is the call site whose frame evaluates the macro.

\* variant: the Err arm keeps the original error, $closure is dropped
map_err_keepErr(s) ==
    /\ s \in {"map_err", "map_err_q"} /\ s \in DOMAIN fr
    /\ fr[s].pc = "macro"
    /\ fr' = [fr EXCEPT ![s] =
                IF input.tag = "Ok"
                THEN [@ EXCEPT !.yield = Ok(Raw(input)), !.pc = AfterMacro(s)]
                ELSE [@ EXCEPT !.yield = Err(Raw(input)), !.pc = AfterMacro(s)]]
    /\ UNCHANGED <<input, closure, errType>>

\* match $result { Ok(val) => Ok(val), Err($err) => Err($closure) }
map_err(s) ==
    /\ s \in {"map_err", "map_err_q"} /\ s \in DOMAIN fr
    /\ fr[s].pc = "macro"
    /\ fr' = [fr EXCEPT ![s] =
                IF input.tag = "Ok"
                THEN [@ EXCEPT !.yield = Ok(Raw(input)), !.pc = AfterMacro(s)]
                ELSE [EvalClosure(@) EXCEPT
                         !.yield = Err(ClosureValue(closure, Raw(input))),
                         !.pc = AfterMacro(s)]]
    /\ UNCHANGED <<input, closure, errType>>

\* variant: the None arm produces Ok($closure)
ok_or_else_noneOk(s) ==
    /\ s \in {"ok_or_else", "ok_or_else_q"} /\ s \in DOMAIN fr
    /\ fr[s].pc = "macro"
    /\ fr' = [fr EXCEPT ![s] =
                IF input.tag = "Some"
                THEN [@ EXCEPT !.yield = Ok(Raw(input)), !.pc = AfterMacro(s)]
                ELSE [EvalClosure(@) EXCEPT
                         !.yield = Ok(ClosureValue(closure, Nil)),
                         !.pc = AfterMacro(s)]]
    /\ UNCHANGED <<input, closure, errType>>

\* variant: $closure is evaluated before the match, as an argument would be
ok_or_else_eager(s) ==
    /\ s \in {"ok_or_else", "ok_or_else_q"} /\ s \in DOMAIN fr
    /\ fr[s].pc = "macro"
    /\ fr' = [fr EXCEPT ![s] =
                IF input.tag = "Some"
                THEN [EvalClosure(@) EXCEPT !.yield = Ok(Raw(input)),
                                            !.pc = AfterMacro(s)]
                ELSE [EvalClosure(@) EXCEPT
                         !.yield = Err(ClosureValue(closure, Nil)),
                         !.pc = AfterMacro(s)]]
    /\ UNCHANGED <<input, closure, errType>>

\* match $result { Some(val) => Ok(val), None => Err($closure) }
ok_or_else(s) ==
    /\ s \in {"ok_or_else", "ok_or_else_q"} /\ s \in DOMAIN fr
    /\ fr[s].pc = "macro"
    /\ fr' = [fr EXCEPT ![s] =
                IF input.tag = "Some"
                THEN [@ EXCEPT !.yield = Ok(Raw(input)), !.pc = AfterMacro(s)]
                ELSE [EvalClosure(@) EXCEPT
                         !.yield = Err(ClosureValue(closure, Nil)),
                         !.pc = AfterMacro(s)]]
    /\ UNCHANGED <<input, closure, errType>>

\* variant: the Ok arm copied from map_err!, Ok(val) => Ok(val)
try_map_err_wrapOk(s) ==
    /\ s = "try_map_err" /\ s \in DOMAIN fr
    /\ fr[s].pc = "macro"
    /\ fr' = [fr EXCEPT ![s] =
                IF input.tag = "Ok"
                THEN [@ EXCEPT !.yield = Ok(Raw(input)), !.pc = "after"]
                ELSE [EvalClosure(@) EXCEPT
                         !.ret = Err(Into(ClosureValue(closure, Raw(input)), errType)),
                         !.pc = "returned"]]
    /\ UNCHANGED <<input, closure, errType>>

\* variant: the Err arm without `return`: the converted error is the
\* expression's value and the function goes on
try_map_err_noReturn(s) ==
    /\ s = "try_map_err" /\ s \in DOMAIN fr
    /\ fr[s].pc = "macro"
    /\ fr' = [fr EXCEPT ![s] =
                IF input.tag = "Ok"
                THEN [@ EXCEPT !.yield = Raw(input), !.pc = "after"]
                ELSE [EvalClosure(@) EXCEPT
                         !.yield = Err(Into(ClosureValue(closure, Raw(input)), errType)),
                         !.pc = "after"]]
    /\ UNCHANGED <<input, closure, errType>>

\* variant: $closure is evaluated before the match, as an argument would be
try_map_err_eager(s) ==
    /\ s = "try_map_err" /\ s \in DOMAIN fr
    /\ fr[s].pc = "macro"
    /\ fr' = [fr EXCEPT ![s] =
                IF input.tag = "Ok"
                THEN [EvalClosure(@) EXCEPT !.yield = Raw(input), !.pc = "after"]
                ELSE [EvalClosure(@) EXCEPT
                         !.ret = Err(Into(ClosureValue(closure, Raw(input)), errType)),
                         !.pc = "returned"]]
    /\ UNCHANGED <<input, closure, errType>>

\* match $result { Ok(val) => val, Err($err) => return Err($closure.into()) }
try_map_err(s) ==
    /\ s = "try_map_err" /\ s \in DOMAIN fr
    /\ fr[s].pc = "macro"
    /\ fr' = [fr EXCEPT ![s] =
                IF input.tag = "Ok"
                THEN [@ EXCEPT !.yield = Raw(input), !.pc = "after"]
                ELSE [EvalClosure(@) EXCEPT
                         !.ret = Err(Into(ClosureValue(closure, Raw(input)), errType)),
                         !.pc = "returned"]]
    /\ UNCHANGED <<input, closure, errType>>

\* variant: the None arm without `return`
try_ok_or_else_noReturn(s) ==
    /\ s = "try_ok_or_else" /\ s \in DOMAIN fr
    /\ fr[s].pc = "macro"
    /\ fr' = [fr EXCEPT ![s] =
                IF input.tag = "Some"
                THEN [@ EXCEPT !.yield = Raw(input), !.pc = "after"]
                ELSE [EvalClosure(@) EXCEPT
                         !.yield = Err(Into(ClosureValue(closure, Nil), errType)),
                         !.pc = "after"]]
    /\ UNCHANGED <<input, closure, errType>>

\* variant: the None arm returns Err($closure) without .into()
try_ok_or_else_noInto(s) ==
    /\ s = "try_ok_or_else" /\ s \in DOMAIN fr
    /\ fr[s].pc = "macro"
    /\ fr' = [fr EXCEPT ![s] =
                IF input.tag = "Some"
                THEN [@ EXCEPT !.yield = Raw(input), !.pc = "after"]
                ELSE [EvalClosure(@) EXCEPT
                         !.ret = Err(ClosureValue(closure, Nil)),
                         !.pc = "returned"]]
    /\ UNCHANGED <<input, closure, errType>>

\* match $result { Some(val) => val, None => return Err($closure.into()) }
try_ok_or_else(s) ==
    /\ s = "try_ok_or_else" /\ s \in DOMAIN fr
    /\ fr[s].pc = "macro"
    /\ fr' = [fr EXCEPT ![s] =
                IF input.tag = "Some"
                THEN [@ EXCEPT !.yield = Raw(input), !.pc = "after"]
                ELSE [EvalClosure(@) EXCEPT
                         !.ret = Err(Into(ClosureValue(closure, Nil), errType)),
                         !.pc = "returned"]]
    /\ UNCHANGED <<input, closure, errType>>

\* ------------------------------------------------- the enclosing function
\* `?` applied to the value of map_err!/ok_or_else!:
\* Ok(v) => v, Err(e) => return Err(From::from(e))
question(s) ==
    /\ IsQ(s) /\ s \in DOMAIN fr
    /\ fr[s].pc = "question"
    /\ fr' = [fr EXCEPT ![s] =
                IF fr[s].yield.tag = "Ok"
                THEN [@ EXCEPT !.yield = Raw(fr[s].yield), !.pc = "after"]
                ELSE [@ EXCEPT !.yield = Nil,
                               !.ret = Err(From(Raw(fr[s].yield), errType)),
                               !.pc = "returned"]]
    /\ UNCHANGED <<input, closure, errType>>

\* `let mapped = map_err!(..); mapped`: the statement after the macro hands
\* the mapped value out of the function
tail_mapped(s) ==
    /\ ~IsTry(s) /\ ~IsQ(s) /\ s \in DOMAIN fr
    /\ fr[s].pc = "after"
    /\ fr' = [fr EXCEPT ![s] = [@ EXCEPT !.after = @ + 1,
                                         !.ret = fr[s].yield,
                                         !.pc = "returned"]]
    /\ UNCHANGED <<input, closure, errType>>

\* `Ok(a)`: the statement after the macro moves a into the Ok return value
tail_ok_a(s) ==
    /\ (IsTry(s) \/ IsQ(s)) /\ s \in DOMAIN fr
    /\ fr[s].pc = "after"
    /\ fr' = [fr EXCEPT ![s] = [@ EXCEPT !.after = @ + 1,
                                         !.moved = Append(@, "tail"),
                                         !.ret = Ok(MyNonCopy),
                                         !.pc = "returned"]]
    /\ UNCHANGED <<input, closure, errType>>

Next ==
    \E s \in Sites :
        \/ map_err(s)
        \/ ok_or_else(s)
        \/ try_map_err(s)
        \/ try_ok_or_else(s)
        \/ question(s)
        \/ tail_mapped(s)
        \/ tail_ok_a(s)

Spec == Init /\ [][Next]_vars

\* ------------------------------------------------------------- typing
TypeOK ==
    /\ input \in ResultInputs \cup OptionInputs
    /\ closure \in ClosuresFor(input)
    /\ errType \in ErrTypesFor(closure)
    /\ DOMAIN fr = SitesFor(input, closure)
    /\ \A s \in DOMAIN fr :
          /\ fr[s].pc \in {"macro", "question", "after", "returned"}
          /\ fr[s].evals \in 0..1
          /\ fr[s].after \in 0..1


\* ---------------------------------------------------------------- claims
Has(s) == s \in DOMAIN fr

\* value of the replacement expression at this call site
FVal == ClosureValue(closure, IF IsResult(input) THEN Raw(input) ELSE Nil)

\* C1: once map_err!(r, |e| f) is evaluated its value is Ok(v) when r is
\* Ok(v) and Err(f with e bound to x) when r is Err(x), and that is the value
\* the function hands out.
C1_MapErrResult ==
    (Has("map_err") /\ fr["map_err"].pc # "macro") =>
        /\ fr["map_err"].yield = (IF input.tag = "Ok" THEN Ok(Raw(input)) ELSE Err(FVal))
        /\ fr["map_err"].pc = "returned" => fr["map_err"].ret = fr["map_err"].yield

C1_Witness ==
    /\ Has("map_err") /\ input.tag = "Err" /\ closure = "lit"
    /\ fr["map_err"].pc = "returned"
    /\ fr["map_err"].ret = Err(RawOf("i32", Lit))

\* C2: once ok_or_else!(o, || f) is evaluated its value is Ok(v) when o is
\* Some(v) and Err(value of f) when o is None.
C2_OkOrElseResult ==
    (Has("ok_or_else") /\ fr["ok_or_else"].pc # "macro") =>
        /\ fr["ok_or_else"].yield = (IF input.tag = "Some" THEN Ok(Raw(input)) ELSE Err(FVal))
        /\ fr["ok_or_else"].pc = "returned" => fr["ok_or_else"].ret = fr["ok_or_else"].yield

C2_Witness ==
    /\ Has("ok_or_else") /\ input = None /\ closure = "lit"
    /\ fr["ok_or_else"].pc = "returned"
    /\ fr["ok_or_else"].ret = Err(RawOf("i32", Lit))

\* C3: when try_map_err! meets Err(x) the enclosing function exits at once:
\* no statement after the macro runs, the macro expression yields nothing,
\* and the function returns Err of the value of f converted to the
\* function's error type.
C3_TryMapErrExits ==
    (Has("try_map_err") /\ input.tag = "Err") =>
        /\ fr["try_map_err"].pc \in {"macro", "returned"}
        /\ fr["try_map_err"].after = 0
        /\ fr["try_map_err"].yield = Nil
        /\ fr["try_map_err"].pc = "returned" =>
              /\ fr["try_map_err"].ret.tag = "Err"
              /\ fr["try_map_err"].ret.ty = errType
              /\ fr["try_map_err"].ret.v = FVal.v

C3_Witness ==
    /\ Has("try_map_err") /\ input.tag = "Err"
    /\ fr["try_map_err"].pc = "returned"
    /\ closure = "lit" /\ errType = "i64"
    /\ fr["try_map_err"].ret = Err(RawOf("i64", Lit))

\* C4: when try_map_err! meets Ok(v) the macro expression yields v itself,
\* the function has not returned at that point, and the statement after the
\* macro is executed.
C4_TryMapErrUnwraps ==
    (Has("try_map_err") /\ input.tag = "Ok" /\ fr["try_map_err"].pc # "macro") =>
        /\ fr["try_map_err"].yield = Raw(input)
        /\ fr["try_map_err"].evals = 0
        /\ fr["try_map_err"].pc = "after" => fr["try_map_err"].ret = Nil
        /\ fr["try_map_err"].pc = "returned" =>
              /\ fr["try_map_err"].after = 1
              /\ fr["try_map_err"].ret = Ok(MyNonCopy)

C4_Witness ==
    /\ Has("try_map_err") /\ input.tag = "Ok"
    /\ fr["try_map_err"].pc = "returned"
    /\ fr["try_map_err"].yield = Raw(input)

\* C5: try_ok_or_else! yields v and goes on to the following statement when
\* o is Some(v); when o is None the function exits at once, running no later
\* statement, and returns Err of the value of f converted to the function's
\* error type.
C5_TryOkOrElse ==
    Has("try_ok_or_else") =>
        IF input.tag = "Some"
        THEN fr["try_ok_or_else"].pc # "macro" =>
                /\ fr["try_ok_or_else"].yield = Raw(input)
                /\ fr["try_ok_or_else"].pc = "after" => fr["try_ok_or_else"].ret = Nil
                /\ fr["try_ok_or_else"].pc = "returned" =>
                      /\ fr["try_ok_or_else"].after = 1
                      /\ fr["try_ok_or_else"].ret = Ok(MyNonCopy)
        ELSE /\ fr["try_ok_or_else"].pc \in {"macro", "returned"}
             /\ fr["try_ok_or_else"].after = 0
             /\ fr["try_ok_or_else"].yield = Nil
             /\ fr["try_ok_or_else"].pc = "returned" =>
                   /\ fr["try_ok_or_else"].ret.tag = "Err"
                   /\ fr["try_ok_or_else"].ret.ty = errType
                   /\ fr["try_ok_or_else"].ret.v = FVal.v

C5_Witness ==
    /\ Has("try_ok_or_else") /\ input = None
    /\ fr["try_ok_or_else"].pc = "returned"
    /\ closure = "lit" /\ errType = "i64"
    /\ fr["try_ok_or_else"].ret = Err(RawOf("i64", Lit))

\* C6: with the replacement expression (a,) and Ok(a) after the macro, the
\* owned value a is never moved twice, and when the function has returned it
\* was moved exactly once: by Ok(a) into the Ok return value on the
\* success path, by the replacement expression into the Err return value on
\* the failure path.
C6_MovedOnce ==
    \A s \in {"try_map_err", "try_ok_or_else"} :
        (Has(s) /\ closure = "tuple_a") =>
            /\ Len(fr[s].moved) <= 1
            /\ fr[s].pc = "returned" =>
                  IF IsSuccess(input)
                  THEN fr[s].moved = <<"tail">> /\ fr[s].ret = Ok(MyNonCopy)
                  ELSE /\ fr[s].moved = <<"closure">>
                       /\ fr[s].ret = Err(RawOf("(MyNonCopy,)", MyNonCopy.v))

C6_Witness ==
    /\ Has("try_map_err") /\ closure = "tuple_a" /\ input.tag = "Err"
    /\ fr["try_map_err"].pc = "returned"
    /\ fr["try_map_err"].moved = <<"closure">>

\* what a caller and the rest of the function can observe of a call site
Observable(f) == <<f.pc, f.yield, f.ret, f.after, f.evals, f.moved>>

\* C7: at the same point of the function, try_map_err!(r, |e| f) and
\* map_err!(r, |e| f)? have yielded the same value, returned the same
\* value, and run the same statements.
C7_TryMapErrIsMapErrQ ==
    (/\ Has("try_map_err") /\ Has("map_err_q")
     /\ fr["try_map_err"].pc \in {"after", "returned"}
     /\ fr["map_err_q"].pc = fr["try_map_err"].pc) =>
        Observable(fr["try_map_err"]) = Observable(fr["map_err_q"])

C7_Witness ==
    /\ Has("try_map_err") /\ Has("map_err_q") /\ input.tag = "Err"
    /\ closure = "err" /\ errType = "String"
    /\ fr["try_map_err"].pc = "returned" /\ fr["map_err_q"].pc = "returned"
    /\ fr["map_err_q"].ret = Err(RawOf("String", input.v))

\* C8: at the same point of the function, try_ok_or_else!(o, || f) and
\* ok_or_else!(o, || f)? have yielded the same value, returned the same
\* value, and run the same statements.
C8_TryOkOrElseIsOkOrElseQ ==
    (/\ Has("try_ok_or_else") /\ Has("ok_or_else_q")
     /\ fr["try_ok_or_else"].pc \in {"after", "returned"}
     /\ fr["ok_or_else_q"].pc = fr["try_ok_or_else"].pc) =>
        Observable(fr["try_ok_or_else"]) = Observable(fr["ok_or_else_q"])

C8_Witness ==
    /\ Has("try_ok_or_else") /\ Has("ok_or_else_q") /\ input = None
    /\ errType = "i64"
    /\ fr["try_ok_or_else"].pc = "returned" /\ fr["ok_or_else_q"].pc = "returned"
    /\ fr["ok_or_else_q"].ret = Err(RawOf("i64", Lit))

\* C9: at every call site of the four macros the replacement expression has
\* been evaluated exactly once if the macro was evaluated on Err/None, and
\* zero times otherwise; on the success path the move it performs never
\* happened.
C9_Lazy ==
    \A s \in DOMAIN fr :
        /\ fr[s].evals = (IF ~IsSuccess(input) /\ fr[s].pc # "macro" THEN 1 ELSE 0)
        /\ IsSuccess(input) => \A k \in 1..Len(fr[s].moved) : fr[s].moved[k] # "closure"

C9_Witness ==
    /\ closure = "tuple_a" /\ input = None
    /\ fr["ok_or_else"].pc = "returned" /\ fr["ok_or_else"].evals = 1
    /\ fr["try_ok_or_else"].pc = "returned" /\ fr["try_ok_or_else"].evals = 1

====
